---- MODULE Spec2Model ----
(***************************************************************************)
(* Model of the Cherry Blossom 10-miler pipeline:                          *)
(*   src/src/scraper.py        the paginated extraction script             *)
(*   src/src/data-cleaning.py  clean_data and calculate_percentiles        *)
(* Text is modelled as a sequence of one-character strings so that         *)
(* splitting, trimming and integer parsing are computed, not assumed.      *)
(***************************************************************************)
EXTENDS Integers, Sequences, FiniteSets, TLC

VARIABLES pc, page, rows, i, allRows, checkpoints, quits, finalCsv, exc,
          lastLog, site,
          stage, csv, df_raw, df_clean, df_final, outCsv, err

scraperVars == <<pc, page, rows, i, allRows, checkpoints, quits, finalCsv,
                 exc, lastLog, site>>
cleanVars == <<stage, csv, df_raw, df_clean, df_final, outCsv, err>>
vars == <<pc, page, rows, i, allRows, checkpoints, quits, finalCsv, exc,
          lastLog, site, stage, csv, df_raw, df_clean, df_final, outCsv, err>>

(***************************************************************************)
(* Text helpers (Python str methods used by both scripts)                  *)
(***************************************************************************)
Whitespace == {" "}

\* str.split(sep) with an explicit one-character separator
Split(s, sep) ==
  LET RECURSIVE F(_, _, _)
      F(k, cur, acc) ==
        IF k > Len(s) THEN Append(acc, cur)
        ELSE IF s[k] = sep THEN F(k + 1, <<>>, Append(acc, cur))
        ELSE F(k + 1, Append(cur, s[k]), acc)
  IN F(1, <<>>, <<>>)

\* str.strip()
Strip(s) ==
  LET idx == {k \in 1..Len(s) : s[k] \notin Whitespace}
  IN IF idx = {} THEN <<>>
     ELSE LET lo == CHOOSE k \in idx : \A m \in idx : k <= m
              hi == CHOOSE k \in idx : \A m \in idx : k >= m
          IN SubSeq(s, lo, hi)

\* str.rsplit(' ', 1)
RSplit1(s) ==
  LET idx == {k \in 1..Len(s) : s[k] = " "}
  IN IF idx = {} THEN <<s>>
     ELSE LET hi == CHOOSE k \in idx : \A m \in idx : k >= m
          IN <<SubSeq(s, 1, hi - 1), SubSeq(s, hi + 1, Len(s))>>

\* x[-2:]
LastTwo(s) == IF Len(s) <= 2 THEN s ELSE SubSeq(s, Len(s) - 1, Len(s))

\* html.unescape over the entities that occur in the modelled pages
Unescape(s) ==
  [k \in 1..Len(s) |->
     IF s[k] = "&amp;" THEN "&" ELSE IF s[k] = "&lt;" THEN "<" ELSE s[k]]

\* scraper.py checked_text
checked_text(x) == IF x = <<>> \/ x = <<",", " ">> THEN <<>> ELSE x

(***************************************************************************)
(* Scraper: constants                                                      *)
(***************************************************************************)
max_pages == 787
CheckpointEvery == 20

(***************************************************************************)
(* Rendered rows.  A row is what the navigation client exposes: its        *)
(* innerHTML marker, the bold name element, the 16px info element and its  *)
(* td cells (cells[k] is ./td[k]).  el.found = FALSE makes find_element    *)
(* raise NoSuchElementException.                                           *)
(***************************************************************************)
El(t) == [found |-> TRUE, text |-> t]
NoEl == [found |-> FALSE, text |-> <<>>]

GoodInfo == <<"M", "-", "3", "0", "|", " ", "|", "1", "0", "M", "|",
              "D", "C", " ", "U", "S", "A">>
AmpInfo == <<"F", "-", "4", "1", "|", "&amp;", "|", "1", "0", "M", "|",
             "V", "A", " ", "U", "S", "A">>
NoRaceInfo == <<"M", "-", "3", "0", "|", " ">>
NoDashInfo == <<"M", "3", "0", "|", " ", "|", "1", "0", "M", "|",
                "D", "C", " ", "U", "S", "A">>
NoCountryInfo == <<"M", "-", "3", "0", "|", " ", "|", "1", "0", "M", "|",
                   "D", "C">>

GoodCells == << <<>>, <<"1">>, <<"1">>, <<"1">>,
                <<"1", ":", "1", "5", ":", "3", "0">>,
                <<" ", "7", ":", "3", "3">> >>
BlankCells == << <<>>, <<"2">>, <<>>, <<" ">>,
                 <<"5", "9", ":", "0", "0">>, <<"5", ":", "5", "4">> >>

MkRow(h, n, inf, c) == [html |-> h, name |-> n, info |-> inf, cells |-> c]

rowGood == MkRow("plain", El(<<"A", "l">>), El(GoodInfo), GoodCells)
rowAmp == MkRow("plain", El(<<"B", "o">>), El(AmpInfo), BlankCells)
rowDQ == MkRow("Disqualified", El(<<"C", "y">>), El(GoodInfo), GoodCells)
rowInel == MkRow("Ineligible for Scoring", El(<<"D", "i">>), El(GoodInfo),
                 GoodCells)
rowNoName == MkRow("plain", NoEl, El(GoodInfo), GoodCells)
rowNoInfo == MkRow("plain", El(<<"E", "d">>), NoEl, GoodCells)
rowNoRace == MkRow("plain", El(<<"F", "e">>), El(NoRaceInfo), GoodCells)
rowNoDash == MkRow("plain", El(<<"G", "i">>), El(NoDashInfo), GoodCells)
rowNoCountry == MkRow("plain", El(<<"H", "o">>), El(NoCountryInfo), GoodCells)
rowNoPace == MkRow("plain", El(<<"I", "d">>), El(GoodInfo),
                   SubSeq(GoodCells, 1, 5))

\* A site is a cycle of page contents; page p renders site[((p-1) % Len)+1].
SiteAllGood == << <<rowGood, rowAmp>> >>
SiteMixed == << <<rowGood, rowDQ>>, <<rowNoRace, rowAmp>>, <<rowNoPace>> >>
SiteRagged == << <<rowNoDash, rowGood>>, <<rowInel>>, <<rowNoCountry, rowAmp>>,
                 <<rowNoName, rowNoInfo>> >>
\* the table lost its pace column: every row fails
SiteBroken == << <<rowNoPace>> >>
Sites == {SiteAllGood, SiteMixed, SiteRagged, SiteBroken}

PageRows(s, p) == s[((p - 1) % Len(s)) + 1]

(***************************************************************************)
(* Row Extractor: the body of the try block, scraper.py lines 73-98.       *)
(* Returns [ok |-> TRUE, row |-> the 11-field record] or [ok |-> FALSE]    *)
(* when any statement of the block raises.                                 *)
(***************************************************************************)
Td(row, k) == IF k <= Len(row.cells) THEN El(row.cells[k]) ELSE NoEl

NewRow(row) ==
  LET cleaninfo == Unescape(row.info.text)
      raw == Split(cleaninfo, "|")
      parts == [k \in 1..Len(raw) |-> Strip(raw[k])]
      gender_age == Split(parts[1], "-")
      citystate_country == RSplit1(parts[4])
      found == /\ row.name.found
               /\ row.info.found
               /\ \A k \in 2..6 : Td(row, k).found
      indexed == /\ Len(parts) >= 4
                 /\ Len(gender_age) >= 2
                 /\ Len(citystate_country) >= 2
  IN IF ~found \/ ~indexed THEN [ok |-> FALSE]
     ELSE [ok |-> TRUE,
           row |-> [Name |-> checked_text(row.name.text),
                    Gender |-> checked_text(gender_age[1]),
                    Age |-> checked_text(gender_age[2]),
                    Race |-> checked_text(parts[3]),
                    State |-> checked_text(LastTwo(citystate_country[1])),
                    Country |-> checked_text(citystate_country[2]),
                    OverallPlace |-> checked_text(Strip(Td(row, 2).text)),
                    GenderPlace |-> checked_text(Strip(Td(row, 3).text)),
                    AgeGroupPlace |-> checked_text(Strip(Td(row, 4).text)),
                    FinishTime |-> checked_text(Strip(Td(row, 5).text)),
                    Pace |-> checked_text(Strip(Td(row, 6).text))]]

\* line 66: the two exclusion markers searched in the row's innerHTML
IsExcluded(row) ==
  row.html = "Disqualified" \/ row.html = "Ineligible for Scoring"

(***************************************************************************)
(* Scraper state machine.  pc is the script's position:                    *)
(*   WaitRows   line 61      Extract    lines 64-102 (one row per step)    *)
(*   Checkpoint line 103     FindNext   lines 110-116                      *)
(*   AwaitStale line 118     Quit       line 131                           *)
(*   Persist    lines 133-137           Done / Crashed                     *)
(* allRows holds references <<page, row index>> to the rendered rows whose *)
(* record was appended; RawRowOf gives the appended record.                *)
(***************************************************************************)
NoCsv == [written |-> FALSE, rows |-> <<>>]

ScraperInit ==
  /\ pc = "WaitRows"
  /\ page = 1
  /\ rows = <<>>
  /\ i = 1
  /\ allRows = <<>>
  /\ checkpoints = <<>>
  /\ quits = 0
  /\ finalCsv = NoCsv
  /\ exc = "none"
  /\ lastLog = "start"
  /\ site \in Sites

RawRowOf(ref) == NewRow(PageRows(site, ref[1])[ref[2]]).row

\* mutant: the ceiling test admits one page too many
LoopCondOffByOne(p) == p <= max_pages + 1

\* line 59: the loop condition
LoopCond(p) == p <= max_pages

\* lines 61-62: rows appear within the bounded wait
RowsPresent ==
  /\ pc = "WaitRows"
  /\ rows' = PageRows(site, page)
  /\ i' = 1
  /\ pc' = "Extract"
  /\ lastLog' = "Scraping page"
  /\ UNCHANGED <<page, allRows, checkpoints, quits, finalCsv, exc, site>>

\* line 61: the wait times out; TimeoutException is raised outside any try
RowsTimeout ==
  /\ pc = "WaitRows"
  /\ pc' = "Crashed"
  /\ exc' = "TimeoutException"
  /\ lastLog' = "Scraping page"
  /\ UNCHANGED <<page, rows, i, allRows, checkpoints, quits, finalCsv, site>>

\* line 65: get_attribute raises (the row went stale); outside the try block
RowMarkupRaises ==
  /\ pc = "Extract"
  /\ i <= Len(rows)
  /\ pc' = "Crashed"
  /\ exc' = "StaleElementReferenceException"
  /\ UNCHANGED <<page, rows, i, allRows, checkpoints, quits, finalCsv,
                 lastLog, site>>

\* mutant: the record is appended even when the try block raised
RowAppendAlways(acc, p, k, row) == Append(acc, <<p, k>>)

\* lines 99-102: what one iteration leaves in allRows
RowAppend(acc, p, k, row) ==
  IF NewRow(row).ok THEN Append(acc, <<p, k>>) ELSE acc

\* lines 65-102: one iteration of the row loop
ExtractRow ==
  /\ pc = "Extract"
  /\ i <= Len(rows)
  /\ IF IsExcluded(rows[i])
       THEN /\ allRows' = allRows
            /\ lastLog' = "Skipping row: Disqualified or Ineligible"
       ELSE /\ allRows' = RowAppend(allRows, page, i, rows[i])
            /\ lastLog' = IF NewRow(rows[i]).ok THEN lastLog
                          ELSE "Skipping row due to error"
  /\ i' = i + 1
  /\ UNCHANGED <<pc, page, rows, checkpoints, quits, finalCsv, exc, site>>

\* line 64: the row loop is exhausted
RowsDone ==
  /\ pc = "Extract"
  /\ i > Len(rows)
  /\ pc' = "Checkpoint"
  /\ UNCHANGED <<page, rows, i, allRows, checkpoints, quits, finalCsv, exc,
                 lastLog, site>>

\* line 103
CheckpointDue(p) == p % CheckpointEvery = 0

\* lines 103-108
Checkpoint ==
  /\ pc = "Checkpoint"
  /\ IF CheckpointDue(page)
       THEN /\ checkpoints' = Append(checkpoints,
                                     [page |-> page, rows |-> allRows])
            /\ lastLog' = "Saved data"
       ELSE UNCHANGED <<checkpoints, lastLog>>
  /\ pc' = "FindNext"
  /\ UNCHANGED <<page, rows, i, allRows, quits, finalCsv, exc, site>>

\* lines 111-116: the next control is clickable and is clicked
NextFound ==
  /\ pc = "FindNext"
  /\ pc' = "AwaitStale"
  /\ lastLog' = "Clicked Next"
  /\ UNCHANGED <<page, rows, i, allRows, checkpoints, quits, finalCsv, exc,
                 site>>

\* lines 126-129: no next control (or any exception of lines 111-116)
NextAbsent ==
  /\ pc = "FindNext"
  /\ pc' = "Quit"
  /\ lastLog' = "Stopped scraping"
  /\ UNCHANGED <<page, rows, i, allRows, checkpoints, quits, finalCsv, exc,
                 site>>

\* lines 119-121 then the loop test of line 59
PageChanged ==
  /\ pc = "AwaitStale"
  /\ page' = page + 1
  /\ pc' = IF LoopCond(page + 1) THEN "WaitRows" ELSE "Quit"
  /\ lastLog' = "Page changed"
  /\ UNCHANGED <<rows, i, allRows, checkpoints, quits, finalCsv, exc, site>>

\* mutant: a staleness timeout waits for the page again instead of breaking
StaleTimeoutRetries ==
  /\ pc = "AwaitStale"
  /\ pc' = "AwaitStale"
  /\ lastLog' = "Page did not change"
  /\ UNCHANGED <<page, rows, i, allRows, checkpoints, quits, finalCsv, exc,
                 site>>

\* lines 122-124
StaleTimeout ==
  /\ pc = "AwaitStale"
  /\ pc' = "Quit"
  /\ lastLog' = "Page did not change"
  /\ UNCHANGED <<page, rows, i, allRows, checkpoints, quits, finalCsv, exc,
                 site>>

\* line 131
Quit ==
  /\ pc = "Quit"
  /\ quits' = quits + 1
  /\ pc' = "Persist"
  /\ UNCHANGED <<page, rows, i, allRows, checkpoints, finalCsv, exc, lastLog,
                 site>>

\* lines 133-137
Persist ==
  /\ pc = "Persist"
  /\ finalCsv' = [written |-> TRUE, rows |-> allRows]
  /\ pc' = "Done"
  /\ UNCHANGED <<page, rows, i, allRows, checkpoints, quits, exc, lastLog,
                 site>>

CleanIdle ==
  /\ stage = "idle"
  /\ csv = <<>>
  /\ df_raw = <<>>
  /\ df_clean = <<>>
  /\ df_final = <<>>
  /\ outCsv = <<>>
  /\ err = "none"

Init == ScraperInit /\ CleanIdle

Next ==
  \/ (RowsPresent /\ UNCHANGED cleanVars)
  \/ (RowsTimeout /\ UNCHANGED cleanVars)
  \/ (RowMarkupRaises /\ UNCHANGED cleanVars)
  \/ (ExtractRow /\ UNCHANGED cleanVars)
  \/ (RowsDone /\ UNCHANGED cleanVars)
  \/ (Checkpoint /\ UNCHANGED cleanVars)
  \/ (NextFound /\ UNCHANGED cleanVars)
  \/ (NextAbsent /\ UNCHANGED cleanVars)
  \/ (PageChanged /\ UNCHANGED cleanVars)
  \/ (StaleTimeout /\ UNCHANGED cleanVars)
  \/ (Quit /\ UNCHANGED cleanVars)
  \/ (Persist /\ UNCHANGED cleanVars)

Spec == Init /\ [][Next]_vars

\* The script is a single sequential process: it always takes its next step.
FairSpec == Spec /\ WF_vars(Next)

(***************************************************************************)
(* data-cleaning.py.  A cell is [na, v]: NaT / Txt(t) for text columns,    *)
(* NaN / Num(n) for numeric columns, NaS / Txt(label) for the categorical  *)
(* columns whose values are labels.                                        *)
(***************************************************************************)
Txt(t) == [na |-> FALSE, v |-> t]
NaT == [na |-> TRUE, v |-> <<>>]
Num(n) == [na |-> FALSE, v |-> n]
NaN == [na |-> TRUE, v |-> 0]
NaS == [na |-> TRUE, v |-> ""]

Digits == <<"0", "1", "2", "3", "4", "5", "6", "7", "8", "9">>
LowerCase == <<"a", "b", "c", "d", "e", "f", "g", "h", "i", "j", "k", "l", "m",
               "n", "o", "p", "q", "r", "s", "t", "u", "v", "w", "x", "y", "z">>
UpperCase == <<"A", "B", "C", "D", "E", "F", "G", "H", "I", "J", "K", "L", "M",
               "N", "O", "P", "Q", "R", "S", "T", "U", "V", "W", "X", "Y", "Z">>

IsDigit(c) == \E d \in 1..10 : Digits[d] = c
DigitVal(c) == (CHOOSE d \in 1..10 : Digits[d] = c) - 1

\* str.upper()
Upper(s) ==
  [k \in 1..Len(s) |->
     IF \E n \in 1..26 : LowerCase[n] = s[k]
       THEN UpperCase[CHOOSE n \in 1..26 : LowerCase[n] = s[k]]
       ELSE s[k]]

\* value of a non-empty run of decimal digits
DigitsValue(t) ==
  LET RECURSIVE F(_, _)
      F(k, acc) == IF k > Len(t) THEN acc
                   ELSE F(k + 1, acc * 10 + DigitVal(t[k]))
  IN F(1, 0)

\* Python int(text): surrounding whitespace, an optional sign, decimal
\* digits.  [ok |-> FALSE] stands for ValueError.
PyInt(t) ==
  LET u == Strip(t)
      signed == Len(u) >= 1 /\ u[1] \in {"+", "-"}
      body == IF signed THEN SubSeq(u, 2, Len(u)) ELSE u
  IN IF Len(body) = 0 \/ \E k \in 1..Len(body) : ~IsDigit(body[k])
       THEN [ok |-> FALSE, n |-> 0]
       ELSE [ok |-> TRUE,
             n |-> IF signed /\ u[1] = "-" THEN 0 - DigitsValue(body)
                   ELSE DigitsValue(body)]

\* pd.to_numeric(errors='coerce') on one cell (integers; the modelled
\* alphabet has no decimal point)
ToNumeric(c) ==
  IF c.na THEN NaN
  ELSE IF PyInt(c.v).ok THEN Num(PyInt(c.v).n) ELSE NaN

\* Series.str.strip().str.upper() on one cell
StripUpper(c) == IF c.na THEN NaT ELSE Txt(Upper(Strip(c.v)))

\* time_to_seconds
time_to_seconds(c) ==
  IF c.na \/ c.v = <<>> THEN NaN
  ELSE LET parts == Split(Strip(c.v), ":")
           n == [k \in 1..Len(parts) |-> PyInt(parts[k])]
       IN IF Len(parts) \notin {2, 3} \/ \E k \in 1..Len(parts) : ~n[k].ok
            THEN NaN
          ELSE IF Len(parts) = 3
            THEN Num(n[1].n * 3600 + n[2].n * 60 + n[3].n)
          ELSE Num(n[1].n * 60 + n[2].n)

\* pd.read_csv default NA markers that occur in the modelled inputs
DefaultNaValues == {<<>>, <<"N", "A">>, <<"N", "a", "N">>}
ReadCsvCell(t) == IF t \in DefaultNaValues THEN NaT ELSE Txt(t)

CsvFields == {"Gender", "Age", "State", "Country", "OverallPlace",
              "GenderPlace", "AgeGroupPlace", "FinishTime", "Pace"}

\* load_data: the k-th line of the csv becomes the row with index k
LoadRow(line, k) ==
  [idx |-> k,
   Gender |-> ReadCsvCell(line.Gender),
   Age |-> ReadCsvCell(line.Age),
   State |-> ReadCsvCell(line.State),
   Country |-> ReadCsvCell(line.Country),
   OverallPlace |-> ReadCsvCell(line.OverallPlace),
   GenderPlace |-> ReadCsvCell(line.GenderPlace),
   AgeGroupPlace |-> ReadCsvCell(line.AgeGroupPlace),
   FinishTime |-> ReadCsvCell(line.FinishTime),
   Pace |-> ReadCsvCell(line.Pace)]

military_codes == {<<"A", "A">>, <<"A", "E">>, <<"A", "P">>}

\* lines 103-105
bins == <<0, 19, 24, 29, 34, 39, 44, 49, 54, 59, 64, 69, 74, 79, 100>>
labels == <<"0-19", "20-24", "25-29", "30-34", "35-39", "40-44", "45-49",
            "50-54", "55-59", "60-64", "65-69", "70-74", "75-79", "80+">>

\* pd.cut(Age, bins, labels): right-closed intervals (bins[k], bins[k+1]]
AgeGroupOf(age) ==
  IF age.na THEN NaS
  ELSE LET hit == {k \in 1..Len(labels) :
                     bins[k] < age.v /\ age.v <= bins[k + 1]}
       IN IF hit = {} THEN NaS ELSE Txt(labels[CHOOSE k \in hit : TRUE])

min_time_seconds == 2400
max_time_seconds == 10800

\* mutant: the outlier bounds are exclusive
InTimeRangeExclusive(sec) == sec > min_time_seconds /\ sec < max_time_seconds

\* lines 122-125
InTimeRange(sec) == sec >= min_time_seconds /\ sec <= max_time_seconds

St(a, b) == <<a, b>>
new_england == {St("C","T"), St("M","E"), St("M","A"), St("N","H"),
                St("R","I"), St("V","T")}
middle_atlantic == {St("N","J"), St("N","Y"), St("P","A")}
east_north_central == {St("I","L"), St("I","N"), St("M","I"), St("O","H"),
                       St("W","I")}
west_north_central == {St("I","A"), St("K","S"), St("M","N"), St("M","O"),
                       St("N","E"), St("N","D"), St("S","D")}
south_atlantic == {St("D","E"), St("F","L"), St("G","A"), St("M","D"),
                   St("N","C"), St("S","C"), St("V","A"), St("D","C"),
                   St("W","V")}
east_south_central == {St("A","L"), St("K","Y"), St("M","S"), St("T","N")}
west_south_central == {St("A","R"), St("L","A"), St("O","K"), St("T","X")}
mountain == {St("A","Z"), St("C","O"), St("I","D"), St("M","T"), St("N","V"),
             St("N","M"), St("U","T"), St("W","Y")}
pacific == {St("A","K"), St("C","A"), St("H","I"), St("O","R"), St("W","A")}

get_census_region(state) ==
  IF state.na THEN NaS
  ELSE LET st == Upper(Strip(state.v))
       IN IF st \in military_codes THEN Txt("U.S. Military")
          ELSE IF st \in new_england \cup middle_atlantic
            THEN Txt("Northeast")
          ELSE IF st \in east_north_central \cup west_north_central
            THEN Txt("Midwest")
          ELSE IF st \in south_atlantic \cup east_south_central
                         \cup west_south_central
            THEN Txt("South")
          ELSE IF st \in mountain \cup pacific THEN Txt("West")
          ELSE Txt("Other")

get_census_division(state) ==
  IF state.na THEN NaS
  ELSE LET st == Upper(Strip(state.v))
       IN IF st \in military_codes THEN Txt("U.S. Military")
          ELSE IF st \in new_england THEN Txt("New England")
          ELSE IF st \in middle_atlantic THEN Txt("Middle Atlantic")
          ELSE IF st \in east_north_central THEN Txt("East North Central")
          ELSE IF st \in west_north_central THEN Txt("West North Central")
          ELSE IF st \in south_atlantic THEN Txt("South Atlantic")
          ELSE IF st \in east_south_central THEN Txt("East South Central")
          ELSE IF st \in west_south_central THEN Txt("West South Central")
          ELSE IF st \in mountain THEN Txt("Mountain")
          ELSE IF st \in pacific THEN Txt("Pacific")
          ELSE Txt("Other")

\* lines 62-79, 86-106: the column conversions, on one row
Convert(r) ==
  LET state == StripUpper(IF ~r.State.na /\ r.State.v = <<>> THEN NaT
                          ELSE r.State)
      country == StripUpper(r.Country)
      age == ToNumeric(r.Age)
  IN [idx |-> r.idx,
      Gender |-> StripUpper(r.Gender),
      Age |-> age,
      State |-> state,
      Country |-> country,
      Is_US |-> (~country.na /\ country.v = <<"U", "S", "A">>),
      OverallPlace |-> ToNumeric(r.OverallPlace),
      GenderPlace |-> ToNumeric(r.GenderPlace),
      AgeGroupPlace |-> ToNumeric(r.AgeGroupPlace),
      FinishTime |-> r.FinishTime,
      Pace |-> r.Pace,
      FinishSeconds |-> time_to_seconds(r.FinishTime),
      PaceSec |-> time_to_seconds(r.Pace),
      AgeGroup |-> AgeGroupOf(age)]

\* line 84
NotMilitary(r) == r.State.na \/ r.State.v \notin military_codes

\* line 112
HasCritical(r) == ~r.FinishSeconds.na /\ ~r.PaceSec.na

\* lines 84, 112, 122-125: the three row filters
Keep(r) == NotMilitary(r) /\ HasCritical(r) /\ InTimeRange(r.FinishSeconds.v)

\* lines 199-203
Classify(r) ==
  [f \in DOMAIN r \cup {"CensusRegion", "CensusDivision", "Is_Local"} |->
     IF f = "CensusRegion" THEN get_census_region(r.State)
     ELSE IF f = "CensusDivision" THEN get_census_division(r.State)
     ELSE IF f = "Is_Local"
       THEN (~r.State.na /\ r.State.v \in {St("D","C"), St("M","D"),
                                            St("V","A")})
     ELSE r[f]]

\* mutant: the military-code filter of line 84 is left out
clean_data_no_military_filter(df) ==
  LET conv == [k \in 1..Len(df) |-> Convert(df[k])]
      KeepNoMil(r) == HasCritical(r) /\ InTimeRange(r.FinishSeconds.v)
      kept == SelectSeq(conv, KeepNoMil)
  IN [k \in 1..Len(kept) |-> Classify(kept[k])]

\* clean_data
clean_data(df) ==
  LET conv == [k \in 1..Len(df) |-> Convert(df[k])]
      kept == SelectSeq(conv, Keep)
  IN [k \in 1..Len(kept) |-> Classify(kept[k])]

(***************************************************************************)
(* calculate_percentiles.  A percentile is the exact fraction num/den.     *)
(***************************************************************************)
NaP == [na |-> TRUE, num |-> 0, den |-> 1]

\* ascending sort of a sequence of integers
SortAsc(q) ==
  LET RECURSIVE Ins(_, _)
      Ins(srt, x) ==
        IF srt = <<>> THEN <<x>>
        ELSE IF x <= Head(srt) THEN <<x>> \o srt
        ELSE <<Head(srt)>> \o Ins(Tail(srt), x)
      RECURSIVE F(_, _)
      F(k, acc) == IF k > Len(q) THEN acc ELSE F(k + 1, Ins(acc, q[k]))
  IN F(1, <<>>)

SumSet(S) ==
  LET RECURSIVE F(_)
      F(T) == IF T = {} THEN 0
              ELSE LET x == CHOOSE y \in T : TRUE IN x + F(T \ {x})
  IN F(S)

\* mutant: ties take the lowest rank of the tie (method='min')
RankPctMin(col, c) ==
  IF c.na THEN NaP
  ELSE LET present == SelectSeq(col, LAMBDA x : ~x.na)
           srt == SortAsc([k \in 1..Len(present) |-> present[k].v])
           pos == {k \in 1..Len(srt) : srt[k] = c.v}
       IN [na |-> FALSE,
           num |-> 100 * (CHOOSE k \in pos : \A m \in pos : k <= m),
           den |-> Len(srt)]

\* Series.rank(pct=True) * 100 for the cell c of the column col: the
\* positions 1..n of the sorted non-missing values, averaged over ties,
\* divided by n
RankPct(col, c) ==
  IF c.na THEN NaP
  ELSE LET present == SelectSeq(col, LAMBDA x : ~x.na)
           srt == SortAsc([k \in 1..Len(present) |-> present[k].v])
           pos == {k \in 1..Len(srt) : srt[k] = c.v}
       IN [na |-> FALSE,
           num |-> 100 * SumSet(pos),
           den |-> Cardinality(pos) * Len(srt)]

\* df.groupby(keys)[col].rank(pct=True) * 100 for row r: rows with a missing
\* key belong to no group (dropna=True) and get a missing result
GroupRankPct(df, r, keys, col) ==
  IF \E f \in keys : r[f].na THEN NaP
  ELSE LET grp == SelectSeq(df, LAMBDA x : \A f \in keys : x[f] = r[f])
       IN RankPct([k \in 1..Len(grp) |-> grp[k][col]], r[col])

WithPercentiles(df, r) ==
  [f \in DOMAIN r \cup {"OverallPercentile", "GenderPercentile",
                        "AgeGroupPercentile"} |->
     IF f = "OverallPercentile"
       THEN RankPct([k \in 1..Len(df) |-> df[k].OverallPlace], r.OverallPlace)
     ELSE IF f = "GenderPercentile"
       THEN GroupRankPct(df, r, {"Gender"}, "GenderPlace")
     ELSE IF f = "AgeGroupPercentile"
       THEN GroupRankPct(df, r, {"Gender", "AgeGroup"}, "AgeGroupPlace")
     ELSE r[f]]

calculate_percentiles(df) == [k \in 1..Len(df) |-> WithPercentiles(df, df[k])]

(***************************************************************************)
(* The cleaning script's main block, lines 291-307                         *)
(***************************************************************************)
\* lines 295, 19-32
LoadData ==
  /\ stage = "csv"
  /\ df_raw' = [k \in 1..Len(csv) |-> LoadRow(csv[k], k)]
  /\ stage' = "loaded"
  /\ UNCHANGED <<csv, df_clean, df_final, outCsv, err>>

\* read_csv gives a column with rows but no text in it a float dtype, on
\* which the .str accessor of lines 62, 72 and 75 raises AttributeError
StrAccessorOk(df) ==
  Len(df) = 0 \/ \A f \in {"Gender", "State", "Country"} :
                    \E k \in 1..Len(df) : ~df[k][f].na

\* line 298
CleanData ==
  /\ stage = "loaded"
  /\ IF StrAccessorOk(df_raw)
       THEN /\ df_clean' = clean_data(df_raw)
            /\ stage' = "cleaned"
            /\ err' = err
       ELSE /\ df_clean' = df_clean
            /\ stage' = "failed"
            /\ err' = "AttributeError"
  /\ UNCHANGED <<csv, df_raw, df_final, outCsv>>

\* line 301
CalculatePercentiles ==
  /\ stage = "cleaned"
  /\ df_final' = calculate_percentiles(df_clean)
  /\ stage' = "ranked"
  /\ UNCHANGED <<csv, df_raw, df_clean, outCsv, err>>

\* lines 304-307: generate_summary_stats divides by len(df) (line 229)
\* before save_cleaned_data writes the file
SummaryAndSave ==
  /\ stage = "ranked"
  /\ IF Len(df_final) = 0
       THEN /\ stage' = "failed"
            /\ err' = "ZeroDivisionError"
            /\ outCsv' = outCsv
       ELSE /\ stage' = "saved"
            /\ outCsv' = df_final
            /\ err' = err
  /\ UNCHANGED <<csv, df_raw, df_clean, df_final>>

(***************************************************************************)
(* Input files of the cleaning script                                      *)
(***************************************************************************)
MaxCleanRows == 2
MaxAgeRows == 1
MaxAge == 101
MaxRankRows == 3

CsvLine(g, a, st, c, op, gp, ap, ft, p) ==
  [Gender |-> g, Age |-> a, State |-> st, Country |-> c, OverallPlace |-> op,
   GenderPlace |-> gp, AgeGroupPlace |-> ap, FinishTime |-> ft, Pace |-> p]

t2399 == <<"3", "9", ":", "5", "9">>
t2400 == <<"4", "0", ":", "0", "0">>
t2400h == <<"0", ":", "4", "0", ":", "0", "0">>
t10800 == <<"3", ":", "0", "0", ":", "0", "0">>
t10800m == <<"1", "8", "0", ":", "0", "0">>
t10801 == <<"3", ":", "0", "0", ":", "0", "1">>
t4530 == <<"1", ":", "1", "5", ":", "3", "0">>
t3723 == <<"1", ":", "0", "2", ":", "0", "3">>
tPadded == <<" ", "4", "5", ":", "1", "0", " ">>
tInnerPad == <<"1", ":", " ", "0", "2", ":", "0", "3">>
tAbc == <<"a", "b", "c">>
tFour == <<"1", ":", "2", ":", "3", ":", "4">>
tOne == <<"9", "0">>
tBadPart == <<"1", ":", "x", "x", ":", "0", "3">>
tNeg == <<"-", "1", ":", "0", "0", ":", "0", "0">>
tBlank == <<" ", " ">>
p453 == <<"7", ":", "3", "3">>
pLong == <<"0", ":", "0", "7", ":", "3", "3">>

USA == <<"U", "S", "A">>
VA == <<"V", "A">>
One == <<"1">>

TimeLine(ft, p) == CsvLine(<<"M">>, <<"3", "0">>, VA, USA, One, One, One, ft, p)
PlaceLine(st, c) == CsvLine(<<"M">>, <<"3", "0">>, st, c, One, One, One, t4530, p453)
PersonLine(g, a, op) == CsvLine(g, a, VA, USA, op, One, <<>>, t4530, p453)

FinishTexts == {t2399, t2400, t2400h, t10800, t10800m, t10801, t4530, t3723,
                tPadded, tInnerPad, tAbc, tFour, tOne, tBadPart, tNeg, tBlank,
                <<>>}
StateTexts == {<<>>, VA, <<"v", "a", " ">>, <<"A", "A">>, <<"a", "e">>,
               <<" ", "A", "p">>, <<"Z", "Z">>, tBlank, <<"N", "A">>,
               <<"N", "Y">>, <<"C", "A">>, <<"I", "L">>, <<"T", "X">>}

CleanLines ==
  {TimeLine(ft, p453) : ft \in FinishTexts}
  \cup {TimeLine(t4530, p) : p \in {<<>>, <<"x">>, <<"7">>, pLong}}
  \cup {TimeLine(tAbc, <<"x">>)}
  \cup {PlaceLine(st, USA) : st \in StateTexts}
  \cup {PlaceLine(<<"A", "E">>, <<"G", "E", "R">>), PlaceLine(VA, <<>>),
        PlaceLine(<<"Z", "Z">>, <<"u", "s", "a">>)}
  \cup {PersonLine(<<>>, <<>>, <<>>), PersonLine(<<"f", " ">>, tAbc, <<"x">>),
        PersonLine(<<"M">>, <<"1", "5", "0">>, <<"2">>)}
  \cup {CsvLine(<<>>, <<>>, <<"A", "P">>, <<>>, <<>>, <<>>, <<>>, t2399, <<>>)}

\* decimal text of a natural number
IntToText(n) ==
  LET RECURSIVE F(_, _)
      F(m, acc) == IF m < 10 THEN <<Digits[m + 1]>> \o acc
                   ELSE F(m \div 10, <<Digits[(m % 10) + 1]>> \o acc)
  IN F(n, <<>>)

AgeLines ==
  {PersonLine(<<"M">>, IntToText(n), One) : n \in 0..MaxAge}
  \cup {PersonLine(<<"M">>, a, One) :
          a \in {<<>>, tAbc, <<"-", "1">>, <<"1", "5", "0">>, <<" ", "2", "0">>}}

RankLine(g, a, op, gp, ap, ft) == CsvLine(g, a, VA, USA, op, gp, ap, ft, p453)

RankLines ==
  {RankLine(<<"M">>, <<"3", "0">>, <<"1">>, <<"1">>, <<"1">>, t4530),
   RankLine(<<"M">>, <<"3", "2">>, <<"2">>, <<"2">>, <<"2">>, t4530),
   RankLine(<<"M">>, <<"3", "0">>, <<"2">>, <<"2">>, <<"1">>, t4530),
   RankLine(<<"F">>, <<"3", "0">>, <<"3">>, <<"1">>, <<"1">>, t4530),
   RankLine(<<"f">>, <<"5", "0">>, <<"1">>, <<"3">>, <<"2">>, t4530),
   RankLine(<<>>, <<"3", "0">>, <<"4">>, <<"1">>, <<"1">>, t4530),
   RankLine(<<"M">>, <<>>, <<"5">>, <<"3">>, <<"1">>, t4530),
   RankLine(<<"M">>, <<"0">>, <<"3">>, <<"1">>, <<"2">>, t4530),
   RankLine(<<"M">>, <<"3", "0">>, <<>>, <<>>, <<>>, t4530),
   RankLine(<<"M">>, <<"3", "0">>, <<"1">>, <<"1">>, <<"1">>, t2399)}

SeqsUpTo(S, n) == UNION {[1..m -> S] : m \in 0..n}

ScraperOff ==
  /\ pc = "Off"
  /\ page = 1
  /\ rows = <<>>
  /\ i = 1
  /\ allRows = <<>>
  /\ checkpoints = <<>>
  /\ quits = 0
  /\ finalCsv = NoCsv
  /\ exc = "none"
  /\ lastLog = "start"
  /\ site = SiteAllGood

CleanStart(files) ==
  /\ stage = "csv"
  /\ csv \in files
  /\ df_raw = <<>>
  /\ df_clean = <<>>
  /\ df_final = <<>>
  /\ outCsv = <<>>
  /\ err = "none"

CleanInit == ScraperOff /\ CleanStart(SeqsUpTo(CleanLines, MaxCleanRows))
AgeInit == ScraperOff /\ CleanStart(SeqsUpTo(AgeLines, MaxAgeRows))
RankInit == ScraperOff /\ CleanStart(SeqsUpTo(RankLines, MaxRankRows))

CleanNext ==
  \/ (LoadData /\ UNCHANGED scraperVars)
  \/ (CleanData /\ UNCHANGED scraperVars)
  \/ (CalculatePercentiles /\ UNCHANGED scraperVars)
  \/ (SummaryAndSave /\ UNCHANGED scraperVars)

CleanSpec == CleanInit /\ [][CleanNext]_vars
AgeSpec == AgeInit /\ [][CleanNext]_vars
RankSpec == RankInit /\ [][CleanNext]_vars

(***************************************************************************)
(* Scraper properties                                                      *)
(***************************************************************************)
InLoop == pc \in {"WaitRows", "Extract", "Checkpoint", "FindNext", "AwaitStale"}
Terminal == pc \in {"Quit", "Persist", "Done"}
RunEnded == pc \in {"Done", "Crashed"}

\* pages whose loop iteration has passed the checkpoint test of line 103
PagesExtracted ==
  IF pc \in {"FindNext", "AwaitStale"} THEN page
  ELSE IF Terminal /\ page <= max_pages THEN page
  ELSE page - 1

IsPrefix(s, t) == Len(s) <= Len(t) /\ SubSeq(t, 1, Len(s)) = s

RefBefore(a, b) == a[1] < b[1] \/ (a[1] = b[1] /\ a[2] < b[2])

\* the rows of pages 1..p that are neither excluded nor failing, in page
\* order then row order, characterised from the site alone
IsEncounterOrder(r, p) ==
  /\ \A k \in 1..(Len(r) - 1) : RefBefore(r[k], r[k + 1])
  /\ {r[k] : k \in 1..Len(r)} =
       UNION {{<<q, k>> : k \in {m \in 1..Len(PageRows(site, q)) :
                                   /\ ~IsExcluded(PageRows(site, q)[m])
                                   /\ NewRow(PageRows(site, q)[m]).ok}}
              : q \in 1..p}

\* C1: on every way the run can end (normal termination or a fatal
\* navigation failure) the client's session teardown has been performed
\* exactly once.
C1_ReleasedOnEveryEnd == RunEnded => quits = 1

\* C2: a timeout of the wait for rows is fatal only on page 1; on a later
\* page the run ends normally and the final raw dataset is persisted.
C2_LateRowsTimeoutEndsNormally ==
  (RunEnded /\ exc = "TimeoutException" /\ page >= 2)
    => (pc = "Done" /\ finalCsv.written /\ finalCsv.rows = allRows)

\* C3: whatever goes wrong while a row is accessed, the row is dropped (or
\* appended whole) and extraction continues with the next row of the page;
\* a row never ends the page or the run.
C3_RowFailureNeverEndsRun ==
  [][(pc = "Extract" /\ i <= Len(rows))
       => /\ pc' = "Extract"
          /\ i' = i + 1
          /\ page' = page
          /\ allRows' \in {allRows, Append(allRows, <<page, i>>)}]_vars

\* C4: a missing next control and a staleness timeout both end the run with
\* no retry and no further page; the page counter moves only by +1 and only
\* when the old first row is seen stale; the terminal action releases the
\* client first and then persists the whole accumulated sequence.
C4_NextPageAndTerminalOrder ==
  /\ [](finalCsv.written => (quits = 1 /\ finalCsv.rows = allRows))
  /\ [](pc = "Persist" => (quits = 1 /\ ~finalCsv.written))
  /\ [][/\ (page' # page)
           => (pc = "AwaitStale" /\ page' = page + 1
               /\ lastLog' = "Page changed")
        /\ (pc \in {"FindNext", "AwaitStale"}
            /\ lastLog' \in {"Stopped scraping", "Page did not change"})
           => (pc' = "Quit" /\ page' = page /\ allRows' = allRows)
        /\ (pc = "Quit") => (pc' = "Persist" /\ quits = 0 /\ quits' = 1)
        /\ (pc = "Persist")
           => (pc' = "Done" /\ finalCsv'.rows = allRows /\ quits' = quits)
        /\ Terminal => (allRows' = allRows /\ page' = page /\ rows' = rows)
       ]_vars

C4_Witness ==
  /\ pc = "Done"
  /\ lastLog = "Page did not change"
  /\ page = 3
  /\ quits = 1
  /\ finalCsv.written
  /\ Len(finalCsv.rows) >= 2

\* C5: a checkpoint exists for page p exactly when page p has been extracted
\* and p is a multiple of 20; it holds exactly the successfully extracted
\* rows of pages 1..p in encounter order; every checkpoint is a prefix of
\* each later checkpoint and of the final dataset.
C5_Checkpoints ==
  /\ []({checkpoints[k].page : k \in 1..Len(checkpoints)}
          = {p \in 1..PagesExtracted : p % 20 = 0})
  /\ [][/\ (checkpoints' # checkpoints)
           => /\ Len(checkpoints') = Len(checkpoints) + 1
              /\ SubSeq(checkpoints', 1, Len(checkpoints)) = checkpoints
              /\ checkpoints'[Len(checkpoints')].page = page
              /\ IsEncounterOrder(checkpoints'[Len(checkpoints')].rows, page)
              /\ \A k \in 1..Len(checkpoints) :
                   IsPrefix(checkpoints[k].rows,
                            checkpoints'[Len(checkpoints')].rows)
        /\ (finalCsv'.written /\ ~finalCsv.written)
           => \A k \in 1..Len(checkpoints) :
                IsPrefix(checkpoints[k].rows, finalCsv'.rows)
       ]_vars

C5_Witness ==
  /\ site = SiteRagged
  /\ Len(checkpoints) = 2
  /\ checkpoints[2].page = 40
  /\ Len(checkpoints[1].rows) < Len(checkpoints[2].rows)
  /\ Len(checkpoints[2].rows) < 40
  /\ finalCsv.written

\* C6: while the loop runs the page counter stays within 1..max_pages, no
\* more than max_pages pages are extracted, and the loop is always left,
\* even when the next control is found and the page changes every time.
C6_CeilingBoundsLoop ==
  /\ [](InLoop => page \in 1..max_pages)
  /\ [](PagesExtracted <= max_pages)
  /\ <>(~InLoop)

C6_Witness == pc = "Done" /\ page = max_pages + 1 /\ lastLog = "Page changed"

(***************************************************************************)
(* Cleaning and ranking properties                                         *)
(***************************************************************************)
\* clean_data has returned
Cleaned == stage \in {"cleaned", "ranked", "saved"}
             \/ (stage = "failed" /\ err = "ZeroDivisionError")
\* calculate_percentiles has returned
Ranked == stage \in {"ranked", "saved"}
            \/ (stage = "failed" /\ err = "ZeroDivisionError")

InClean(k) == \E j \in 1..Len(df_clean) : df_clean[j].idx = k

\* the admission rule as the claim words it, on a loaded raw row
Admitted(r) ==
  /\ r.State.na \/ Upper(Strip(r.State.v)) \notin
                     {<<"A", "A">>, <<"A", "E">>, <<"A", "P">>}
  /\ ~time_to_seconds(r.FinishTime).na
  /\ ~time_to_seconds(r.Pace).na
  /\ time_to_seconds(r.FinishTime).v >= 2400
  /\ time_to_seconds(r.FinishTime).v <= 10800

ClaimedLow == <<0, 20, 25, 30, 35, 40, 45, 50, 55, 60, 65, 70, 75, 80>>
ClaimedHigh == <<19, 24, 29, 34, 39, 44, 49, 54, 59, 64, 69, 74, 79, 100>>
ClaimedLabel == <<"0-19", "20-24", "25-29", "30-34", "35-39", "40-44",
                  "45-49", "50-54", "55-59", "60-64", "65-69", "70-74",
                  "75-79", "80+">>

\* C8: every numeric Age in [0, 100] gets the one group whose range contains
\* it (0 through 19 is '0-19', ..., 80 through 100 is '80+'); the group is
\* missing exactly when the Age is missing or outside [0, 100].
C8_AgeBinning ==
  Cleaned =>
    \A j \in 1..Len(df_clean) :
      LET a == df_clean[j].Age
          g == df_clean[j].AgeGroup
      IN /\ g.na <=> (a.na \/ a.v < 0 \/ a.v > 100)
         /\ (~a.na /\ a.v >= 0 /\ a.v <= 100)
              => \E n \in 1..14 : /\ ClaimedLow[n] <= a.v
                                  /\ a.v <= ClaimedHigh[n]
                                  /\ g = Txt(ClaimedLabel[n])

\* equality of two percentiles as fractions
PctEq(a, b) == a.na = b.na /\ (~a.na => a.num * b.den = b.num * a.den)

\* average rank / count * 100 within the rows grp of df_final, counted from
\* the places below and equal to the row's own
ClaimedPct(grp, col, r) ==
  IF r[col].na THEN NaP
  ELSE LET have == {k \in grp : ~df_final[k][col].na}
           less == Cardinality({k \in have : df_final[k][col].v < r[col].v})
           same == Cardinality({k \in have : df_final[k][col].v = r[col].v})
       IN [na |-> FALSE, num |-> 100 * (2 * less + same + 1),
           den |-> 2 * Cardinality(have)]

SameKeys(k, r, keys) == \A f \in keys : df_final[k][f] = r[f]
Rows == 1..Len(df_final)

\* C9 as stated: each percentile is average rank / count * 100 within the
\* whole dataset, the records of the same Gender, and the records of the
\* same Gender and Age Group; a percentile is missing only for a missing
\* place.
C9_PercentileAsStated ==
  Ranked =>
    \A j \in Rows :
      LET r == df_final[j]
      IN /\ PctEq(r.OverallPercentile, ClaimedPct(Rows, "OverallPlace", r))
         /\ PctEq(r.GenderPercentile,
                  ClaimedPct({k \in Rows : SameKeys(k, r, {"Gender"})},
                             "GenderPlace", r))
         /\ PctEq(r.AgeGroupPercentile,
                  ClaimedPct({k \in Rows :
                                SameKeys(k, r, {"Gender", "AgeGroup"})},
                             "AgeGroupPlace", r))

ClaimedGroupPct(keys, col, r) ==
  IF \E f \in keys : r[f].na THEN NaP
  ELSE ClaimedPct({k \in Rows : SameKeys(k, r, keys)}, col, r)

\* C9 amended: as stated for records whose grouping keys are present; a
\* record whose Gender (or, for the age-group percentile, Gender or Age
\* Group) is missing gets a missing percentile.  A group of one yields 100,
\* tied places get equal percentiles, a missing place a missing percentile.
C9_PercentileByPresentKeys ==
  Ranked =>
    /\ \A j \in Rows :
         LET r == df_final[j]
         IN /\ PctEq(r.OverallPercentile,
                     ClaimedPct(Rows, "OverallPlace", r))
            /\ PctEq(r.GenderPercentile,
                     ClaimedGroupPct({"Gender"}, "GenderPlace", r))
            /\ PctEq(r.AgeGroupPercentile,
                     ClaimedGroupPct({"Gender", "AgeGroup"},
                                     "AgeGroupPlace", r))
            /\ r.GenderPlace.na => r.GenderPercentile.na
            /\ (~r.Gender.na /\ ~r.GenderPlace.na
                /\ \A k \in Rows \ {j} :
                     df_final[k].Gender # r.Gender \/ df_final[k].GenderPlace.na)
               => (~r.GenderPercentile.na
                   /\ r.GenderPercentile.num = 100 * r.GenderPercentile.den)
    /\ \A j, k \in Rows :
         (df_final[j].Gender = df_final[k].Gender
          /\ df_final[j].GenderPlace = df_final[k].GenderPlace)
           => PctEq(df_final[j].GenderPercentile, df_final[k].GenderPercentile)

C9_Witness ==
  /\ Ranked
  /\ Len(df_final) = 3
  /\ \E j, k, m \in Rows :
       /\ j # k
       /\ ~df_final[j].Gender.na /\ df_final[j].Gender = df_final[k].Gender
       /\ ~df_final[j].GenderPlace.na
       /\ df_final[j].GenderPlace = df_final[k].GenderPlace
       /\ ~df_final[j].GenderPercentile.na
       /\ df_final[j].GenderPercentile.num < 100 * df_final[j].GenderPercentile.den
       /\ df_final[m].Gender.na /\ ~df_final[m].GenderPlace.na
       /\ df_final[m].GenderPercentile.na

\* C10: no cleaned record is classified 'U.S. Military'; every Region is one
\* of the four census regions, 'Other', or missing, and it is missing
\* exactly when the record's State is missing.
C10_NoMilitaryRegion ==
  Cleaned =>
    \A j \in 1..Len(df_clean) :
      LET r == df_clean[j]
      IN /\ r.CensusRegion # Txt("U.S. Military")
         /\ r.CensusDivision # Txt("U.S. Military")
         /\ r.CensusRegion \in {Txt("Northeast"), Txt("Midwest"), Txt("South"),
                                Txt("West"), Txt("Other"), NaS}
         /\ r.CensusRegion.na <=> r.State.na
         /\ r.CensusRegion.na <=> df_raw[r.idx].State.na

C10_Witness ==
  /\ Cleaned
  /\ Len(df_raw) = 2
  /\ df_raw[1].State = Txt(<<"a", "e">>)
  /\ Len(df_clean) = 1
  /\ df_clean[1].idx = 2
  /\ df_clean[1].CensusRegion = Txt("Other")

====
